---- MODULE Spec2Model ----
(***************************************************************************)
(* The comment / like backend of replyke-node-api as a state machine.      *)
(*                                                                         *)
(* The state is the document store (the articles and comments collections) *)
(* and the HTTP requests in flight.  Every `await` on a store call of a    *)
(* route handler is one atomic step (a MongoDB single-document operation   *)
(* is atomic); what a handler computes locally between two store calls     *)
(* belongs to the step of the store call before it.                        *)
(*                                                                         *)
(* The repository holds two generations of each router: the "legacy"       *)
(* routes (/replyke-articles of articles.ts lines 1-141 and /comments of   *)
(* unnamed/part_002) and the "current" routes (articles.ts lines 143-575). *)
(* They make the same store calls and differ in their status codes only.   *)
(* A request's field `variant` is "any" until the step at which the two    *)
(* generations answer differently, which records the one that answers.     *)
(*                                                                         *)
(* Request fields (article_id, user_id, comment_id) are always present, so *)
(* the 400 "missing field" returns of the current routes are not entered.  *)
(***************************************************************************)
EXTENDS Integers, Sequences, FiniteSets, TLC

\* ------------------------------------------------------------------ bounds
MaxComments == 4
MaxProcs == 2
MaxRequests == 3
MaxFaults == 1
MaxListed == 12

ArticleIds == {"a1", "a2"}
UserIds == {"u1", "u2"}
Variants == {"legacy", "current"}

Procs == 1..MaxProcs
\* The one client of the specifications in which requests run one at a time.
SeqProcs == {1}

\* IComment.parent is optional: 0 stands for "no parent" (a falsy value).
NoParent == 0
\* An id the store never assigns: a parent that resolves to no comment.
GhostId == MaxComments + MaxProcs + 1
\* The request budget of a specification that bounds nothing.
Unlimited == 0 - 1

VARIABLES
    articles,   \* article_id -> the Article documents with that article_id, oldest first
    comments,   \* _id -> Comment document, for the stored comments
    nextId,     \* the _id the store gives the next saved comment
    procs,      \* client -> its request in flight, or its last completed one
    liked,      \* monitor: the successful Like of an existing entity that came last or last but one
    quota,      \* requests that may still start (Unlimited: any number)
    faults      \* store calls that have failed

vars == <<articles, comments, nextId, procs, liked, quota, faults>>

\* ------------------------------------------------------------ documents
Includes(s, x) == \E i \in 1..Len(s) : s[i] = x

\* Pull with its filter inverted: the occurrences of x are what is kept.
PullOthers(s, x) == SelectSeq(s, LAMBDA y : y = x)

\* $pull: every occurrence of x leaves the array.
Pull(s, x) == SelectSeq(s, LAMBDA y : y # x)

\* Push as $addToSet would do it: x is appended unless it is there.
PushOnce(s, x) == IF Includes(s, x) THEN s ELSE Append(s, x)

\* $push: x is appended, whether or not it is already there.
Push(s, x) == Append(s, x)

NewArticle(likes, likes_count, comments_count, replies_count) ==
    [likes |-> likes, likes_count |-> likes_count,
     comments_count |-> comments_count, replies_count |-> replies_count]

\* The comment bodies of the model; FirstBody is the comment_body every
\* CreateComment is given, PATCH may send any of them.
Bodies == {"b0", "b1", "b2"}
FirstBody == "b0"

NewComment(article_id, parent) ==
    [article_id |-> article_id, parent |-> parent, body |-> FirstBody,
     likes |-> <<>>, likes_count |-> 0, replies_count |-> 0]

\* Article.findOne({article_id}): the oldest matching document, if any.
HasArticle(arts, a) == arts[a] # <<>>
FindOne(arts, a) == Head(arts[a])

\* Article.findOneAndUpdate({article_id}, update): the oldest matching
\* document is replaced; nothing happens when none matches.
UpdateOne(arts, a, doc) ==
    IF HasArticle(arts, a)
    THEN [arts EXCEPT ![a] = <<doc>> \o Tail(arts[a])]
    ELSE arts

\* new Article({...}).save()
InsertArticle(arts, a, doc) == [arts EXCEPT ![a] = Append(arts[a], doc)]

Stored(cs, id) == id \in DOMAIN cs

\* IncReplies that also reaches the parent of the comment it updates.
IncRepliesUpward(cs, id, d) ==
    IF Stored(cs, id)
    THEN [i \in DOMAIN cs |->
            IF i = id \/ i = cs[id].parent
            THEN [cs[i] EXCEPT !.replies_count = cs[i].replies_count + d]
            ELSE cs[i]]
    ELSE cs

\* IncReplies that falls back on the oldest stored comment when the id
\* resolves to nothing.
IncRepliesOrOldest(cs, id, d) ==
    IF Stored(cs, id)
    THEN [cs EXCEPT ![id].replies_count = cs[id].replies_count + d]
    ELSE IF DOMAIN cs = {} THEN cs
    ELSE LET o == CHOOSE i \in DOMAIN cs : \A j \in DOMAIN cs : i <= j
         IN [cs EXCEPT ![o].replies_count = cs[o].replies_count + d]

\* Comment.findByIdAndUpdate(id, {$inc: {replies_count: d}}): a no-op when
\* the id resolves to nothing.
IncReplies(cs, id, d) ==
    IF Stored(cs, id)
    THEN [cs EXCEPT ![id].replies_count = cs[id].replies_count + d]
    ELSE cs

\* new Comment({...}).save()
InsertComment(cs, id, doc) ==
    [i \in DOMAIN cs \cup {id} |-> IF i = id THEN doc ELSE cs[i]]

\* Comment.findByIdAndDelete(id)
RemoveComment(cs, id) == [i \in DOMAIN cs \ {id} |-> cs[i]]

RECURSIVE SortedSeq(_)
SortedSeq(S) ==
    IF S = {} THEN <<>>
    ELSE LET m == CHOOSE x \in S : \A y \in S : x <= y
         IN <<m>> \o SortedSeq(S \ {m})

\* ChildComments as a findOne would answer it: the oldest child only.
ChildCommentsFirstOnly(cs, id) ==
    LET kids == SortedSeq({i \in DOMAIN cs : cs[i].parent = id})
    IN IF kids = <<>> THEN kids ELSE <<Head(kids)>>

\* Comment.find({parent: id}): the stored comments whose parent is id, in
\* the store's natural (insertion) order.
ChildComments(cs, id) == SortedSeq({i \in DOMAIN cs : cs[i].parent = id})

\* ------------------------------------------------------------- requests
Idle ==
    [pc |-> "idle", op |-> "none", variant |-> "any", article_id |-> "a1",
     comment_id |-> 0, user_id |-> "u1", parent |-> NoParent, status |-> 0,
     found |-> FALSE, fetched |-> [likes |-> <<>>, likes_count |-> 0], target |-> NewComment("a1", NoParent), cur |-> 0,
     stack |-> <<>>, firstLevelCommentsDeletedCount |-> 0,
     repliesDeletedCount |-> 0, sent |-> <<>>, update |-> FirstBody,
     sort_by |-> "none", page |-> "absent", limit |-> "absent", queried |-> FALSE,
     pre |-> [articles |-> [a \in ArticleIds |-> <<>>], comments |-> <<>>]]

Free(p) == procs[p].pc \in {"idle", "done"}
Quiescent == \A p \in Procs : Free(p)

\* A request as it enters its handler, with the store as it is then.
Request(op, a, c, u, par) ==
    [Idle EXCEPT !.pc = op, !.op = op, !.article_id = a,
                 !.comment_id = c, !.user_id = u, !.parent = par,
                 !.pre = [articles |-> articles, comments |-> comments]]

\* res.status(s).send(...): the request is over; its locals are dropped.
Respond(r, s) ==
    [r EXCEPT !.pc = "done", !.status = s, !.found = FALSE, !.cur = 0,
              !.fetched = [likes |-> <<>>, likes_count |-> 0],
              !.stack = <<>>]

Spend == IF quota = Unlimited THEN quota ELSE quota - 1

NoLike ==
    [on |-> FALSE, undone |-> FALSE, op |-> "none", article_id |-> "a1",
     comment_id |-> 0, user_id |-> "u1", likes |-> <<>>, likes_count |-> 0]

\* The monitor after request r ends with status s.
Monitor(r, s) ==
    IF s = 200 /\ r.op \in {"likeArticle", "likeComment"} /\ r.found
    THEN [on |-> TRUE, undone |-> FALSE, op |-> r.op,
          article_id |-> r.article_id, comment_id |-> r.comment_id,
          user_id |-> r.user_id, likes |-> r.fetched.likes,
          likes_count |-> r.fetched.likes_count]
    ELSE IF /\ s = 200 /\ liked.on /\ ~liked.undone
            /\ \/ r.op = "unlikeArticle" /\ liked.op = "likeArticle"
               \/ r.op = "unlikeComment" /\ liked.op = "likeComment"
            /\ r.article_id = liked.article_id
            /\ r.comment_id = liked.comment_id
            /\ r.user_id = liked.user_id
    THEN [liked EXCEPT !.undone = TRUE]
    ELSE NoLike

\* The store is empty when the server first starts.
EmptyStore ==
    /\ articles = [a \in ArticleIds |-> <<>>]
    /\ comments = <<>>
    /\ nextId = 1
    /\ procs = [p \in Procs |-> Idle]
    /\ liked = NoLike
    /\ faults = 0

Init == EmptyStore /\ quota = Unlimited

\* A step of request p that leaves it in flight.
Goto(p, r) ==
    /\ procs' = [procs EXCEPT ![p] = r]
    /\ UNCHANGED <<liked, quota, faults>>

\* The step of request p that sends its response.
Finish(p, s) ==
    /\ procs' = [procs EXCEPT ![p] = Respond(procs[p], s)]
    /\ liked' = Monitor(procs[p], s)
    /\ UNCHANGED <<quota, faults>>

\* The step of request p that sends its response with the documents docs as
\* its body (kept in `sent` for the routes whose body is looked at).
Send(p, s, docs) ==
    /\ procs' = [procs EXCEPT ![p] = [Respond(procs[p], s) EXCEPT !.sent = docs]]
    /\ liked' = Monitor(procs[p], s)
    /\ UNCHANGED <<quota, faults>>

\* The response of request p where the route generations differ: legacy
\* answers with status sl, current with status sc.
FinishEither(p, sl, sc) ==
    /\ \E v \in Variants :
          procs' = [procs EXCEPT ![p] =
                      [Respond(procs[p], IF v = "legacy" THEN sl ELSE sc)
                          EXCEPT !.variant = v]]
    /\ liked' = NoLike
    /\ UNCHANGED <<quota, faults>>

\* A request enters its handler.
Start(p, r) ==
    /\ Free(p)
    /\ quota # 0
    /\ procs' = [procs EXCEPT ![p] = r]
    /\ quota' = Spend
    /\ UNCHANGED <<articles, comments, nextId, liked, faults>>

\* -------------------------------------------------- POST comments (create)
\* The parent ids a client can send: none, the id of a stored comment, or
\* an id that resolves to nothing (GhostId stands for all of them: the id of
\* a deleted comment is never assigned again).
ParentInputs == {NoParent, GhostId} \cup DOMAIN comments

StartCreate(p) ==
    /\ nextId <= MaxComments
    /\ \E a \in ArticleIds, par \in ParentInputs :
          Start(p, [Request("create", a, 0, "u1", par) EXCEPT !.pc = "cr_save"])

\* await comment.save()
CreateSave(p) ==
    LET r == procs[p] IN
    /\ r.pc = "cr_save"
    /\ comments' = InsertComment(comments, nextId, NewComment(r.article_id, r.parent))
    /\ nextId' = nextId + 1
    /\ Goto(p, [r EXCEPT !.comment_id = nextId,
                         !.pc = IF r.parent # NoParent THEN "cr_parent" ELSE "cr_fetch"])
    /\ UNCHANGED articles

\* if (parent) await Comment.findByIdAndUpdate(parent, {$inc: {replies_count: 1}})
CreateParent(p) ==
    LET r == procs[p] IN
    /\ r.pc = "cr_parent"
    /\ comments' = IncReplies(comments, r.parent, 1)
    /\ Goto(p, [r EXCEPT !.pc = "cr_fetch"])
    /\ UNCHANGED <<articles, nextId>>

\* const article = await Article.findOne({article_id}).lean()
CreateFetch(p) ==
    LET r == procs[p] IN
    /\ r.pc = "cr_fetch"
    /\ Goto(p, [r EXCEPT !.pc = "cr_article", !.found = HasArticle(articles, r.article_id)])
    /\ UNCHANGED <<articles, comments, nextId>>

\* CountComment without its parent test: every comment counts as first-level.
CountCommentAsFirstLevel(doc, parent) ==
    [doc EXCEPT !.comments_count = doc.comments_count + 1]

\* The $inc an existing article gets from a new comment.
CountComment(doc, parent) ==
    IF parent # NoParent
    THEN [doc EXCEPT !.replies_count = doc.replies_count + 1]
    ELSE [doc EXCEPT !.comments_count = doc.comments_count + 1]

\* The article created for the first comment of an article_id.
FirstCommentArticle(parent) == NewArticle(<<>>, 0, 1, 0)

\* if (article) await Article.findOneAndUpdate(...) else await newArticle.save();
\* return res.status(200).send(comment): the comment as it was constructed
CreateArticle(p) ==
    LET r == procs[p] IN
    /\ r.pc = "cr_article"
    /\ articles' =
          IF r.found
          THEN IF HasArticle(articles, r.article_id)
               THEN UpdateOne(articles, r.article_id,
                              CountComment(FindOne(articles, r.article_id), r.parent))
               ELSE articles
          ELSE InsertArticle(articles, r.article_id, FirstCommentArticle(r.parent))
    /\ Send(p, 200, <<NewComment(r.article_id, r.parent)>>)
    /\ UNCHANGED <<comments, nextId>>

\* ------------------------------------------------ DELETE comments (delete)
\* The comment ids a client can send: the id of a stored comment, or one
\* that resolves to nothing.
CommentInputs == {GhostId} \cup DOMAIN comments

StartDelete(p) ==
    \E c \in CommentInputs :
        Start(p, [Request("delete", "a1", c, "u1", NoParent) EXCEPT !.pc = "del_fetch"])

\* const targetComment = await Comment.findById(comment_id).lean()
DeleteFetch(p) ==
    LET r == procs[p] IN
    /\ r.pc = "del_fetch"
    /\ IF Stored(comments, r.comment_id)
       THEN Goto(p, [r EXCEPT !.pc = "del_delete", !.cur = r.comment_id,
                              !.target = comments[r.comment_id],
                              !.article_id = comments[r.comment_id].article_id])
       ELSE FinishEither(p, 500, 404)
    /\ UNCHANGED <<articles, comments, nextId>>

\* The calls of deleteCommentAndChildren that have returned are dropped: a
\* call returns when its loop over childComments has no element left.
RECURSIVE Unwind(_)
Unwind(st) ==
    IF st = <<>> THEN st
    ELSE IF Head(st) = <<>> THEN Unwind(Tail(st))
    ELSE st

\* Descend that stays where it is: the call never goes past its query.
DescendStalls(r, children) == r

\* Where the traversal stands after a call has fetched its childComments:
\* the next child to delete, or the end of the outermost call.
Descend(r, children) ==
    LET st == Unwind(<<children>> \o r.stack) IN
    IF st = <<>>
    THEN [r EXCEPT !.stack = <<>>, !.cur = 0,
                   !.pc = IF r.target.parent # NoParent THEN "del_parent" ELSE "del_article"]
    ELSE [r EXCEPT !.stack = <<Tail(Head(st))>> \o Tail(st), !.cur = Head(Head(st)),
                   !.pc = "del_delete"]

\* CountDeleted without its parent test: every deleted comment is a reply.
CountDeletedAsReply(r, doc) ==
    [r EXCEPT !.repliesDeletedCount = r.repliesDeletedCount + 1]

\* CountDeleted without its parent test: every deleted comment is first-level.
CountDeletedAsFirstLevel(r, doc) ==
    [r EXCEPT !.firstLevelCommentsDeletedCount = r.firstLevelCommentsDeletedCount + 1]

\* comment.parent ? repliesDeletedCount++ : firstLevelCommentsDeletedCount++
CountDeleted(r, doc) ==
    IF doc.parent # NoParent
    THEN [r EXCEPT !.repliesDeletedCount = r.repliesDeletedCount + 1]
    ELSE [r EXCEPT !.firstLevelCommentsDeletedCount = r.firstLevelCommentsDeletedCount + 1]

\* DeleteNode that goes on to the children of a node it found already gone.
DeleteNodeSkips(p) ==
    LET r == procs[p] IN
    /\ r.pc = "del_delete"
    /\ comments' = RemoveComment(comments, r.cur)
    /\ Goto(p, [r EXCEPT !.pc = "del_children"])
    /\ UNCHANGED <<articles, nextId>>

\* const comment = await Comment.findByIdAndDelete(commentId).lean();
\* if (!comment) throw ...   (caught by the handler: 500)
DeleteNode(p) ==
    LET r == procs[p] IN
    /\ r.pc = "del_delete"
    /\ IF Stored(comments, r.cur)
       THEN /\ comments' = RemoveComment(comments, r.cur)
            /\ Goto(p, [CountDeleted(r, comments[r.cur]) EXCEPT !.pc = "del_children"])
       ELSE /\ comments' = comments
            /\ Finish(p, 500)
    /\ UNCHANGED <<articles, nextId>>

\* const childComments = await Comment.find({parent: comment._id}).lean()
DeleteChildren(p) ==
    LET r == procs[p] IN
    /\ r.pc = "del_children"
    /\ Goto(p, Descend(r, ChildComments(comments, r.cur)))
    /\ UNCHANGED <<articles, comments, nextId>>

\* DeleteParent with the sign of its $inc wrong.
DeleteParentAdds(p) ==
    LET r == procs[p] IN
    /\ r.pc = "del_parent"
    /\ comments' = IncReplies(comments, r.target.parent, 1)
    /\ Goto(p, [r EXCEPT !.pc = "del_article"])
    /\ UNCHANGED <<articles, nextId>>

\* if (targetComment.parent) await Comment.findByIdAndUpdate(
\*     targetComment.parent, {$inc: {replies_count: -1}})
DeleteParent(p) ==
    LET r == procs[p] IN
    /\ r.pc = "del_parent"
    /\ comments' = IncReplies(comments, r.target.parent, 0 - 1)
    /\ Goto(p, [r EXCEPT !.pc = "del_article"])
    /\ UNCHANGED <<articles, nextId>>

\* Uncount that forgets the first-level comments.
UncountReplies(doc, roots, replies) ==
    [doc EXCEPT !.replies_count = doc.replies_count - replies]

\* The combined $inc of the article's two counters.
Uncount(doc, roots, replies) ==
    [doc EXCEPT !.comments_count = doc.comments_count - roots,
                !.replies_count = doc.replies_count - replies]

\* const article = await Article.findOneAndUpdate({article_id:
\*     targetComment.article_id}, {$inc: {...}}); if (!article) throw ...
DeleteArticle(p) ==
    LET r == procs[p] IN
    /\ r.pc = "del_article"
    /\ IF HasArticle(articles, r.article_id)
       THEN /\ articles' = UpdateOne(articles, r.article_id,
                               Uncount(FindOne(articles, r.article_id),
                                       r.firstLevelCommentsDeletedCount,
                                       r.repliesDeletedCount))
            /\ Finish(p, 200)
       ELSE /\ articles' = articles
            /\ Finish(p, 500)
    /\ UNCHANGED <<comments, nextId>>

\* ------------------------------------------ POST articles/like, /unlike
\* The like routes without their guard.
AlreadyLikedNever(doc, u) == FALSE

\* if (article.likes.includes(user_id)) return res.status(406 | 409)...
AlreadyLiked(doc, u) == Includes(doc.likes, u)

\* The unlike routes without their guard.
NotLikedNever(doc, u) == FALSE

\* if (!article.likes.includes(user_id)) return res.status(406 | 409)...
NotLiked(doc, u) == ~Includes(doc.likes, u)

\* {$inc: {likes_count: 1}, $push: {likes: user_id}}, one update
Liked(doc, u) ==
    [doc EXCEPT !.likes_count = doc.likes_count + 1, !.likes = Push(doc.likes, u)]

\* Unliked without its $inc.
UnlikedKeepsCount(doc, u) == [doc EXCEPT !.likes = Pull(doc.likes, u)]

\* {$inc: {likes_count: -1}, $pull: {likes: user_id}}, one update
Unliked(doc, u) ==
    [doc EXCEPT !.likes_count = doc.likes_count - 1, !.likes = Pull(doc.likes, u)]

\* What a like handler keeps of the document it fetched.
Fetched(doc) == [likes |-> doc.likes, likes_count |-> doc.likes_count]

StartLikeArticle(p) ==
    \E a \in ArticleIds, u \in UserIds :
        Start(p, [Request("likeArticle", a, 0, u, NoParent) EXCEPT !.pc = "la_fetch"])

\* const article = await Article.findOne({article_id}).lean(), and the
\* already-liked check
LikeArticleFetch(p) ==
    LET r == procs[p] IN
    /\ r.pc = "la_fetch"
    /\ IF HasArticle(articles, r.article_id)
       THEN IF AlreadyLiked(FindOne(articles, r.article_id), r.user_id)
            THEN FinishEither(p, 406, 409)
            ELSE Goto(p, [r EXCEPT !.pc = "la_update", !.found = TRUE,
                                   !.fetched = Fetched(FindOne(articles, r.article_id))])
       ELSE Goto(p, [r EXCEPT !.pc = "la_create"])
    /\ UNCHANGED <<articles, comments, nextId>>

\* await Article.findOneAndUpdate({article_id}, {$inc, $push})
LikeArticleUpdate(p) ==
    LET r == procs[p] IN
    /\ r.pc = "la_update"
    /\ articles' =
          IF HasArticle(articles, r.article_id)
          THEN UpdateOne(articles, r.article_id,
                         Liked(FindOne(articles, r.article_id), r.user_id))
          ELSE articles
    /\ Finish(p, 200)
    /\ UNCHANGED <<comments, nextId>>

\* FirstLikeArticle with the seed of the comment route: comments_count 1.
FirstLikeArticleCounted(u) == NewArticle(<<u>>, 1, 1, 0)

\* new Article({article_id, likes: [user_id], likes_count: 1,
\*              comments_count: 0, replies_count: 0})
FirstLikeArticle(u) == NewArticle(<<u>>, 1, 0, 0)

\* newArticle = new Article({...}); await newArticle.save();
\* return res.status(200).send(newArticle)
LikeArticleCreate(p) ==
    LET r == procs[p] IN
    /\ r.pc = "la_create"
    /\ articles' = InsertArticle(articles, r.article_id, FirstLikeArticle(r.user_id))
    /\ Send(p, 200, <<FirstLikeArticle(r.user_id)>>)
    /\ UNCHANGED <<comments, nextId>>

StartUnlikeArticle(p) ==
    \E a \in ArticleIds, u \in UserIds :
        Start(p, [Request("unlikeArticle", a, 0, u, NoParent) EXCEPT !.pc = "ua_fetch"])

\* The fetch of the article and the two guards: legacy answers 404 for a
\* missing article and 406 for a user who did not like it; current answers
\* 409 for both.
UnlikeArticleFetch(p) ==
    LET r == procs[p] IN
    /\ r.pc = "ua_fetch"
    /\ IF ~HasArticle(articles, r.article_id)
       THEN FinishEither(p, 404, 409)
       ELSE IF NotLiked(FindOne(articles, r.article_id), r.user_id)
            THEN FinishEither(p, 406, 409)
            ELSE Goto(p, [r EXCEPT !.pc = "ua_update", !.found = TRUE,
                                   !.fetched = Fetched(FindOne(articles, r.article_id))])
    /\ UNCHANGED <<articles, comments, nextId>>

\* await Article.findOneAndUpdate({article_id}, {$inc, $pull})
UnlikeArticleUpdate(p) ==
    LET r == procs[p] IN
    /\ r.pc = "ua_update"
    /\ articles' =
          IF HasArticle(articles, r.article_id)
          THEN UpdateOne(articles, r.article_id,
                         Unliked(FindOne(articles, r.article_id), r.user_id))
          ELSE articles
    /\ Finish(p, 200)
    /\ UNCHANGED <<comments, nextId>>

\* ------------------------------------------ POST comments/like, /unlike
StartLikeComment(p) ==
    \E c \in CommentInputs, u \in UserIds :
        Start(p, [Request("likeComment", "a1", c, u, NoParent) EXCEPT !.pc = "lc_fetch"])

\* const comment = await Comment.findById(comment_id).lean(), the 404 and
\* the already-liked check
LikeCommentFetch(p) ==
    LET r == procs[p] IN
    /\ r.pc = "lc_fetch"
    /\ IF ~Stored(comments, r.comment_id)
       THEN Finish(p, 404)
       ELSE IF AlreadyLiked(comments[r.comment_id], r.user_id)
            THEN FinishEither(p, 406, 409)
            ELSE Goto(p, [r EXCEPT !.pc = "lc_update", !.found = TRUE,
                                   !.fetched = Fetched(comments[r.comment_id])])
    /\ UNCHANGED <<articles, comments, nextId>>

\* await Comment.findByIdAndUpdate(comment_id, {$inc, $push})
LikeCommentUpdate(p) ==
    LET r == procs[p] IN
    /\ r.pc = "lc_update"
    /\ comments' =
          IF Stored(comments, r.comment_id)
          THEN [comments EXCEPT ![r.comment_id] = Liked(comments[r.comment_id], r.user_id)]
          ELSE comments
    /\ Finish(p, 200)
    /\ UNCHANGED <<articles, nextId>>

StartUnlikeComment(p) ==
    \E c \in CommentInputs, u \in UserIds :
        Start(p, [Request("unlikeComment", "a1", c, u, NoParent) EXCEPT !.pc = "uc_fetch"])

\* const comment = await Comment.findById(comment_id).lean(), the 404 and
\* the not-liked check
UnlikeCommentFetch(p) ==
    LET r == procs[p] IN
    /\ r.pc = "uc_fetch"
    /\ IF ~Stored(comments, r.comment_id)
       THEN Finish(p, 404)
       ELSE IF NotLiked(comments[r.comment_id], r.user_id)
            THEN FinishEither(p, 406, 409)
            ELSE Goto(p, [r EXCEPT !.pc = "uc_update", !.found = TRUE,
                                   !.fetched = Fetched(comments[r.comment_id])])
    /\ UNCHANGED <<articles, comments, nextId>>

\* await Comment.findByIdAndUpdate(comment_id, {$inc, $pull})
UnlikeCommentUpdate(p) ==
    LET r == procs[p] IN
    /\ r.pc = "uc_update"
    /\ comments' =
          IF Stored(comments, r.comment_id)
          THEN [comments EXCEPT ![r.comment_id] = Unliked(comments[r.comment_id], r.user_id)]
          ELSE comments
    /\ Finish(p, 200)
    /\ UNCHANGED <<articles, nextId>>

\* ----------------------------------------------------- GET comments (list)
\* A query parameter that the request does not carry.
Absent == "absent"
\* The raw values of req.query.page and req.query.limit.
PageInputs == {Absent, "0", "1", "2", "3", "1.5", "abc"}
\* limit is a whole number or not a number here: what the store does with a
\* negative or fractional limit is not modelled.
LimitInputs == {Absent, "0", "2", "5", "abc"}
\* sort_by: "none" stands for an absent or unrecognised value.
SortInputs == {"popular", "newest", "oldest", "none"}

\* JavaScript numbers, as far as these routes tell them apart: NaN, or a
\* multiple of one half (halves = twice the number).
NaN == [nan |-> TRUE, halves |-> 0]
Num(n) == [nan |-> FALSE, halves |-> 2 * n]

\* Number(x) for the raw values above; the destructuring defaults page = 1
\* and limit = 5 apply to a parameter that is absent.
Number(x, default) ==
    CASE x = Absent -> Num(default)
      [] x = "0"    -> Num(0)
      [] x = "1"    -> Num(1)
      [] x = "2"    -> Num(2)
      [] x = "3"    -> Num(3)
      [] x = "5"    -> Num(5)
      [] x = "1.5"  -> [nan |-> FALSE, halves |-> 3]
      [] OTHER      -> NaN

pageAsNumber(r) == Number(r.page, 1)
limitAsNumber(r) == Number(r.limit, 5)

\* The throws of the handler with the page < 1 and whole-number tests left out.
InvalidOnlyNaN(r) == limitAsNumber(r).nan \/ pageAsNumber(r).nan

\* The three throws of the handler: isNaN(limitAsNumber), isNaN(pageAsNumber),
\* pageAsNumber < 1 || pageAsNumber % 1 !== 0.
Invalid(r) ==
    \/ limitAsNumber(r).nan
    \/ pageAsNumber(r).nan
    \/ pageAsNumber(r).halves < 2
    \/ pageAsNumber(r).halves % 2 # 0

\* skipCount computed from the page itself.
skipCountOfPage(r) ==
    (pageAsNumber(r).halves \div 2) * (limitAsNumber(r).halves \div 2)

\* const skipCount = (pageAsNumber - 1) * limitAsNumber
skipCount(r) ==
    ((pageAsNumber(r).halves \div 2) - 1) * (limitAsNumber(r).halves \div 2)

\* created_at is new Date() at the save of the comment: a comment saved later
\* has the later created_at, so the _id, given in save order, stands for it.
created_at(i) == i

\* Whether comment i comes before comment j under the sort: popular is
\* {likes_count: -1, created_at: -1}, newest {created_at: -1}, oldest
\* {created_at: 1}; with sort = {} the store answers in insertion order.
Before(cs, sort, i, j) ==
    CASE sort = "popular" ->
            \/ cs[i].likes_count > cs[j].likes_count
            \/ cs[i].likes_count = cs[j].likes_count /\ created_at(i) > created_at(j)
      [] sort = "newest" -> created_at(i) > created_at(j)
      [] sort = "oldest" -> created_at(i) < created_at(j)
      [] OTHER -> i < j

RECURSIVE Sort(_, _, _)
Sort(cs, S, sort) ==
    IF S = {} THEN <<>>
    ELSE LET m == CHOOSE x \in S : \A y \in S \ {x} : Before(cs, sort, x, y)
         IN <<m>> \o Sort(cs, S \ {m}, sort)

\* .skip(n)
Skip(seq, n) == SubSeq(seq, n + 1, Len(seq))

\* .limit(n): the store takes a limit of 0 as no limit.
Limit(seq, n) ==
    IF n = 0 \/ n >= Len(seq) THEN seq ELSE SubSeq(seq, 1, n)

\* Comment.find({article_id, parent}).limit(limit).skip(skip).sort(sort): the
\* query sorts, then skips, then limits, whatever the order of the calls; a
\* parent that is absent matches the comments that have none.  The answer
\* is given as the _ids of its comments.
Find(cs, a, par, sort, skip, limit) ==
    Limit(Skip(Sort(cs, {i \in DOMAIN cs : cs[i].article_id = a /\ cs[i].parent = par},
                    sort), skip), limit)

\* The handler up to its store call: the parameters are converted and
\* validated, and a throw is answered 500 by the catch.
StartList(p) ==
    \E a \in ArticleIds, par \in {NoParent, 1}, sort \in SortInputs,
       page \in PageInputs, limit \in LimitInputs :
        LET r == [Request("list", a, 0, "u1", par) EXCEPT
                     !.sort_by = sort, !.page = page, !.limit = limit]
        IN Start(p, IF Invalid(r) THEN Respond(r, 500)
                    ELSE [r EXCEPT !.pc = "ls_find"])

\* const comments = await Comment.find(...); return res.status(200).send(comments)
\* The store refuses a negative skip: the call throws and the catch answers 500.
ListFind(p) ==
    LET r == procs[p]
        found == Find(comments, r.article_id, r.parent, r.sort_by,
                      skipCount(r), limitAsNumber(r).halves \div 2)
    IN
    /\ r.pc = "ls_find"
    /\ procs' = [procs EXCEPT ![p] =
                    IF skipCount(r) < 0
                    THEN [Respond(r, 500) EXCEPT !.queried = TRUE]
                    ELSE [Respond(r, 200) EXCEPT !.queried = TRUE, !.sent = found]]
    /\ liked' = NoLike
    /\ UNCHANGED <<articles, comments, nextId, quota, faults>>

\* ------------------------------------------------- PATCH comments (update)
StartPatch(p) ==
    \E c \in CommentInputs, b \in Bodies :
        Start(p, [Request("patch", "a1", c, "u1", NoParent) EXCEPT
                     !.pc = "pa_update", !.update = b])

\* Comment.findOneAndUpdate({_id: comment_id}, {body: update})
SetBody(cs, id, b) ==
    IF Stored(cs, id) THEN [cs EXCEPT ![id].body = b] ELSE cs

\* await Comment.findOneAndUpdate(...), then the response: the legacy route
\* answers 200 whatever the update found; the current route answers 404
\* when it found no comment and 200 with the updated comment otherwise.
PatchUpdate(p) ==
    LET r == procs[p] IN
    /\ r.pc = "pa_update"
    /\ comments' = SetBody(comments, r.comment_id, r.update)
    /\ IF Stored(comments, r.comment_id)
       THEN Finish(p, 200)
       ELSE FinishEither(p, 200, 404)
    /\ UNCHANGED <<articles, nextId>>

\* ------------------------------------------------------- specifications
CreateStep(p) ==
    CreateSave(p) \/ CreateParent(p) \/ CreateFetch(p) \/ CreateArticle(p)

DeleteStep(p) ==
    \/ DeleteFetch(p) \/ DeleteNode(p) \/ DeleteChildren(p)
    \/ DeleteParent(p) \/ DeleteArticle(p)

StartLike(p) ==
    \/ StartLikeArticle(p) \/ StartUnlikeArticle(p)
    \/ StartLikeComment(p) \/ StartUnlikeComment(p)

LikeStep(p) ==
    \/ LikeArticleFetch(p) \/ LikeArticleUpdate(p) \/ LikeArticleCreate(p)
    \/ UnlikeArticleFetch(p) \/ UnlikeArticleUpdate(p)
    \/ LikeCommentFetch(p) \/ LikeCommentUpdate(p)
    \/ UnlikeCommentFetch(p) \/ UnlikeCommentUpdate(p)

\* CreateComment and DeleteComment, each run to completion before the next
\* starts, every store call succeeding.
Next ==
    \E p \in SeqProcs :
        StartCreate(p) \/ CreateStep(p) \/ StartDelete(p) \/ DeleteStep(p)

Spec == Init /\ [][Next]_vars

\* The store answers every call it is sent, and the continuation after an
\* await runs once its call is answered: a request in flight takes its
\* next step. Nothing obliges a client to send a request.
HandlerStep == \E p \in SeqProcs : CreateStep(p) \/ DeleteStep(p)

FairSpec == Init /\ [][Next]_vars /\ WF_vars(HandlerStep)

\* A store call of the request in flight fails (the store is unreachable,
\* the call times out): it throws, the handler's catch answers 500, and what
\* the request has written so far stays written.
StoreFails(p) ==
    /\ ~Free(p)
    /\ faults < MaxFaults
    /\ faults' = faults + 1
    /\ procs' = [procs EXCEPT ![p] = Respond(procs[p], 500)]
    /\ liked' = NoLike
    /\ UNCHANGED <<articles, comments, nextId, quota>>

\* CreateComment and DeleteComment run one at a time, where any store call
\* may fail.
FaultNext ==
    \E p \in SeqProcs :
        \/ StartCreate(p) \/ CreateStep(p) \/ StartDelete(p) \/ DeleteStep(p)
        \/ StoreFails(p)

FaultSpec == Init /\ [][FaultNext]_vars

\* The store after one CreateComment of a root comment on article "a1"
\* of the empty store (a state of Spec, see OneRootComment): article "a1"
\* and comment 1 exist, article "a2" has no document yet.
OneComment ==
    /\ articles = [a \in ArticleIds |->
                     IF a = "a1" THEN <<NewArticle(<<>>, 0, 1, 0)>> ELSE <<>>]
    /\ comments = <<NewComment("a1", NoParent)>>
    /\ nextId = 2
    /\ procs = [p \in Procs |-> Idle]
    /\ liked = NoLike
    /\ faults = 0

\* Like and Unlike of articles and comments, each run to completion before
\* the next starts.
LikeInit == OneComment /\ quota = Unlimited

LikeNext == \E p \in SeqProcs : StartLike(p) \/ LikeStep(p)

LikeSpec == LikeInit /\ [][LikeNext]_vars

\* Like and Unlike requests of several clients, their store calls
\* interleaved in every order.
RaceInit == OneComment /\ quota = MaxRequests

RaceNext == \E p \in Procs : StartLike(p) \/ LikeStep(p)

RaceSpec == RaceInit /\ [][RaceNext]_vars

\* The store after three CreateComments on article "a1" of the empty
\* store (a state of Spec, see ThreadStored): a root comment 1, its reply 2
\* and the reply 3 to that reply.
Thread ==
    /\ articles = [a \in ArticleIds |->
                     IF a = "a1" THEN <<NewArticle(<<>>, 0, 1, 2)>> ELSE <<>>]
    /\ comments = << [NewComment("a1", NoParent) EXCEPT !.replies_count = 1],
                     [NewComment("a1", 1) EXCEPT !.replies_count = 1],
                     NewComment("a1", 2) >>
    /\ nextId = 4
    /\ procs = [p \in Procs |-> Idle]
    /\ liked = NoLike
    /\ faults = 0

\* A store reached by CreateComments and at most two Likes: n root comments
\* of article "a1" and, unless n = 0, one reply (the last comment) to
\* comment 1; comment j is liked by "u1" and comment k by "u2" (0: none).
ListedStore(n, j, k) ==
    /\ comments =
          [i \in 1..(IF n = 0 THEN 0 ELSE n + 1) |->
              LET likes == (IF i = j THEN <<"u1">> ELSE <<>>) \o
                           (IF i = k THEN <<"u2">> ELSE <<>>)
              IN [NewComment("a1", IF i = n + 1 THEN 1 ELSE NoParent) EXCEPT
                     !.likes = likes, !.likes_count = Len(likes),
                     !.replies_count = IF i = 1 THEN 1 ELSE 0]]
    /\ articles = [a \in ArticleIds |->
                     IF a = "a1" /\ n > 0 THEN <<NewArticle(<<>>, 0, n, 1)>> ELSE <<>>]
    /\ nextId = IF n = 0 THEN 1 ELSE n + 2
    /\ procs = [p \in Procs |-> Idle]
    /\ liked = NoLike
    /\ faults = 0

\* The comments of ListedStore that may have likes are among the first three.
LikedInputs(n) == {i \in 0..n : i <= 3}

\* One ListComments request (the route writes nothing, so a second request
\* would meet the same store) on a store of up to MaxListed root comments.
ListInit ==
    /\ \E n \in 0..MaxListed : \E j, k \in LikedInputs(n) : ListedStore(n, j, k)
    /\ quota = 1

ListNext == \E p \in SeqProcs : StartList(p) \/ ListFind(p)

ListSpec == ListInit /\ [][ListNext]_vars

\* DeleteComment requests of several clients on the three comments, their
\* store calls interleaved in every order.
DeleteRaceInit == Thread /\ quota = MaxRequests

DeleteRaceNext == \E p \in Procs : StartDelete(p) \/ DeleteStep(p)

DeleteRaceSpec == DeleteRaceInit /\ [][DeleteRaceNext]_vars

\* CreateComment and LikeArticle requests of several clients, their store
\* calls interleaved, on article "a1", which has a document, and on article
\* "a2", which has none.
CreateRaceInit == OneComment /\ quota = MaxRequests

LikeArticleStep(p) ==
    LikeArticleFetch(p) \/ LikeArticleUpdate(p) \/ LikeArticleCreate(p)

CreateRaceNext ==
    \E p \in Procs :
        StartCreate(p) \/ CreateStep(p) \/ StartLikeArticle(p) \/ LikeArticleStep(p)

CreateRaceSpec == CreateRaceInit /\ [][CreateRaceNext]_vars

\* CreateComment and DeleteComment requests of several clients, their store
\* calls interleaved, on the thread.
TreeRaceInit == Thread /\ quota = MaxRequests

TreeRaceNext ==
    \E p \in Procs :
        StartCreate(p) \/ CreateStep(p) \/ StartDelete(p) \/ DeleteStep(p)

TreeRaceSpec == TreeRaceInit /\ [][TreeRaceNext]_vars

\* UpdateCommentBody requests, one at a time, on the three comments.
PatchInit == Thread /\ quota = Unlimited

PatchNext == \E p \in SeqProcs : StartPatch(p) \/ PatchUpdate(p)

PatchSpec == PatchInit /\ [][PatchNext]_vars

\* Thread's store is one the program reaches from the empty store.
ThreadStored ==
    /\ Quiescent
    /\ articles["a1"] = <<NewArticle(<<>>, 0, 1, 2)>>
    /\ articles["a2"] = <<>>
    /\ comments = << [NewComment("a1", NoParent) EXCEPT !.replies_count = 1],
                     [NewComment("a1", 1) EXCEPT !.replies_count = 1],
                     NewComment("a1", 2) >>

\* OneComment's store is one the program reaches from the empty store.
OneRootComment ==
    /\ Quiescent
    /\ articles["a1"] = <<NewArticle(<<>>, 0, 1, 0)>>
    /\ articles["a2"] = <<>>
    /\ comments = <<NewComment("a1", NoParent)>>
    /\ nextId = 2

\* ----------------------------------------------------------- the claims
\* The last request of client p has been answered.
Answered(p, op) == procs[p].pc = "done" /\ procs[p].op = op

Roots(cs, a) == {i \in DOMAIN cs : cs[i].article_id = a /\ cs[i].parent = NoParent}
Replies(cs, a) == {i \in DOMAIN cs : cs[i].article_id = a /\ cs[i].parent # NoParent}
Children(cs, c) == {i \in DOMAIN cs : cs[i].parent = c}

\* The comments of cs reachable from those of S through parent links, S included.
RECURSIVE Reachable(_, _)
Reachable(cs, S) ==
    LET T == S \cup {i \in DOMAIN cs : cs[i].parent \in S}
    IN IF T = S THEN S ELSE Reachable(cs, T)

\* Comment c of store cs and all its transitive descendants.
Subtree(cs, c) == Reachable(cs, {c})

\* C1: whenever no request is in flight, every Article document's
\* comments_count is the number of stored parent-less comments of its
\* article_id and its replies_count the number of stored comments of its
\* article_id that have a parent.
C1_ArticleCountsMatchComments ==
    Quiescent =>
        \A a \in ArticleIds : \A k \in 1..Len(articles[a]) :
            /\ articles[a][k].comments_count = Cardinality(Roots(comments, a))
            /\ articles[a][k].replies_count = Cardinality(Replies(comments, a))

\* C2: once a DeleteComment(c) has answered 200, neither c nor any comment
\* that was reachable from c through parent links when the request started
\* is stored, and no stored comment has one of them as its parent.
C2_DeleteRemovesSubtree ==
    \A p \in Procs :
        (Answered(p, "delete") /\ procs[p].status = 200) =>
            LET gone == Subtree(procs[p].pre.comments, procs[p].comment_id)
            IN /\ gone \cap DOMAIN comments = {}
               /\ \A i \in DOMAIN comments : comments[i].parent \notin gone

\* A DeleteComment answered 200 whose target had a reply that had a reply
\* (depth 3) and, besides, a second direct reply.
C2_DeepDeleteDone ==
    \E p \in Procs :
        /\ Answered(p, "delete") /\ procs[p].status = 200
        /\ LET pre == procs[p].pre.comments
               kids == Children(pre, procs[p].comment_id)
           IN /\ Cardinality(kids) >= 2
              /\ \E i \in kids : Children(pre, i) # {}

\* C3: a DeleteComment answered 200 has lowered the comments_count of the
\* target's article by the number of deleted comments without a parent and
\* its replies_count by the number of deleted comments with a parent (the
\* deleted comments being the target's subtree), and a DeleteComment whose
\* target's article has no document is answered 500.
C3_DeleteLowersArticleCounts ==
    \A p \in Procs :
        Answered(p, "delete") =>
            LET r == procs[p]
                pre == r.pre
                gone == IF Stored(pre.comments, r.comment_id)
                        THEN Subtree(pre.comments, r.comment_id) ELSE {}
                roots == Cardinality({i \in gone : pre.comments[i].parent = NoParent})
                replies == Cardinality({i \in gone : pre.comments[i].parent # NoParent})
            IN /\ r.status = 200 =>
                    /\ HasArticle(pre.articles, r.article_id)
                    /\ r.article_id = pre.comments[r.comment_id].article_id
                    /\ FindOne(articles, r.article_id) =
                          [FindOne(pre.articles, r.article_id) EXCEPT
                              !.comments_count = @ - roots,
                              !.replies_count = @ - replies]
                    /\ \A a \in ArticleIds \ {r.article_id} : articles[a] = pre.articles[a]
               /\ ( /\ Stored(pre.comments, r.comment_id)
                    /\ ~HasArticle(pre.articles, pre.comments[r.comment_id].article_id) )
                  => r.status = 500

\* The example of the specification: a root with 2 direct replies and 1
\* grandchild is deleted; comments_count falls by 1 and replies_count by 3.
C3_RootWithThreeRepliesDeleted ==
    \E p \in Procs :
        /\ Answered(p, "delete") /\ procs[p].status = 200
        /\ LET r == procs[p]
               pre == r.pre.comments
               kids == Children(pre, r.comment_id)
           IN /\ pre[r.comment_id].parent = NoParent
              /\ Cardinality(kids) = 2
              /\ Cardinality(Subtree(pre, r.comment_id)) = 4
              /\ FindOne(articles, r.article_id).comments_count =
                    FindOne(r.pre.articles, r.article_id).comments_count - 1
              /\ FindOne(articles, r.article_id).replies_count =
                    FindOne(r.pre.articles, r.article_id).replies_count - 3

\* A DeleteComment that found no document of its target's article.
C3_DeleteWithoutArticle ==
    \E p \in Procs :
        /\ Answered(p, "delete") /\ procs[p].status = 500
        /\ Stored(procs[p].pre.comments, procs[p].comment_id)
        /\ ~HasArticle(articles, procs[p].article_id)
        /\ procs[p].repliesDeletedCount + procs[p].firstLevelCommentsDeletedCount
              = Cardinality(Subtree(procs[p].pre.comments, procs[p].comment_id))

\* C4: whenever no request is in flight, every stored comment's
\* replies_count is the number of stored comments whose parent it is.
C4_RepliesCountMatchesChildren ==
    Quiescent =>
        \A i \in DOMAIN comments :
            comments[i].replies_count = Cardinality(Children(comments, i))

\* A reply with a sibling has been deleted: its parent is still stored and
\* counts the one reply it has left.
C4_ReplyDeletedParentKept ==
    \E p \in Procs :
        /\ Answered(p, "delete") /\ procs[p].status = 200
        /\ Stored(comments, procs[p].target.parent)
        /\ comments[procs[p].target.parent].replies_count = 1
        /\ Cardinality(Subtree(procs[p].pre.comments, procs[p].comment_id)) >= 2

\* The likes and likes_count of every stored article and comment.
LikeDocs ==
    UNION {{Fetched(articles[a][k]) : k \in 1..Len(articles[a])} : a \in ArticleIds}
    \cup {Fetched(comments[i]) : i \in DOMAIN comments}

NoDuplicates(s) == \A i, j \in 1..Len(s) : s[i] = s[j] => i = j

\* C5: whenever no request is in flight, after Likes and Unlikes run one at
\* a time, the likes_count of every article and comment is the length of its
\* likes and no user id is in likes twice.
C5_LikesCountMatchesLikes ==
    Quiescent =>
        \A d \in LikeDocs : d.likes_count = Len(d.likes) /\ NoDuplicates(d.likes)

\* An Unlike answered 200 on an entity two users liked: one like is left.
C5_UnlikedOneOfTwo ==
    \E p \in Procs :
        /\ procs[p].pc = "done" /\ procs[p].status = 200
        /\ procs[p].op \in {"unlikeArticle", "unlikeComment"}
        /\ LET d == IF procs[p].op = "unlikeArticle"
                    THEN FindOne(articles, procs[p].article_id)
                    ELSE comments[procs[p].comment_id]
           IN Len(d.likes) = 1 /\ d.likes_count = 1 /\ d.likes[1] # procs[p].user_id

\* C6: whenever no request is in flight, whatever the interleaving of the
\* Likes and Unlikes before, the likes_count of every article and comment is
\* the number of entries of its likes.
C6_QuiescentLikesCount ==
    Quiescent => \A d \in LikeDocs : d.likes_count = Len(d.likes)

\* The status of the response where the route generations differ.
StatusIs(r, legacy, current) ==
    \/ r.variant = "legacy" /\ r.status = legacy
    \/ r.variant = "current" /\ r.status = current

\* C7: a Like by a user whose id is in the likes of the article or comment
\* is answered "already liked" (406 by the legacy route, 409 by the current
\* one) and the entity is as it was.
C7_SecondLikeRejected ==
    \A p \in Procs :
        LET r == procs[p] IN
        /\ ( /\ Answered(p, "likeArticle")
             /\ HasArticle(r.pre.articles, r.article_id)
             /\ Includes(FindOne(r.pre.articles, r.article_id).likes, r.user_id) )
           => /\ StatusIs(r, 406, 409)
              /\ articles[r.article_id] = r.pre.articles[r.article_id]
        /\ ( /\ Answered(p, "likeComment")
             /\ Stored(r.pre.comments, r.comment_id)
             /\ Includes(r.pre.comments[r.comment_id].likes, r.user_id) )
           => /\ StatusIs(r, 406, 409)
              /\ Stored(comments, r.comment_id)
              /\ comments[r.comment_id] = r.pre.comments[r.comment_id]

\* A Like of a comment has been refused because the user had liked it.
C7_LikedTwice ==
    \E p \in Procs :
        /\ Answered(p, "likeComment") /\ procs[p].status = 409
        /\ Includes(comments[procs[p].comment_id].likes, procs[p].user_id)
        /\ comments[procs[p].comment_id].likes_count = 1

\* The article or comment the monitor follows.
LikedDoc ==
    IF liked.op = "likeArticle" THEN FindOne(articles, liked.article_id)
    ELSE comments[liked.comment_id]

\* C8: when a Like of an existing entity by a user who had not liked it has
\* been answered 200 and the next request, an Unlike of the same entity by
\* the same user, has been answered 200, the entity's likes and likes_count
\* are those it had before the Like.
C8_LikeUnlikeRoundTrip ==
    liked.undone =>
        /\ LikedDoc.likes = liked.likes
        /\ LikedDoc.likes_count = liked.likes_count

\* A Like and the Unlike after it, on an entity another user likes.
C8_RoundTripDone == liked.undone /\ liked.likes # <<>> /\ liked.op = "likeArticle"

CounterMovesWithMembership(d, e) ==
    /\ e.likes_count = d.likes_count + 1
          <=> \E u \in UserIds : e.likes = Append(d.likes, u)
    /\ e.likes_count = d.likes_count - 1
          <=> \E u \in UserIds : Includes(d.likes, u) /\ e.likes = Pull(d.likes, u)

\* C10: in every step, for every stored article and comment, likes_count
\* goes up by 1 exactly when a user id is appended to likes and down by 1
\* exactly when a user id that was in likes is removed from it; a step that
\* does neither leaves both as they were.
C10_CounterMovesWithMembership ==
    [][ /\ \A a \in ArticleIds : \A k \in 1..Len(articles[a]) :
              CounterMovesWithMembership(articles[a][k], articles'[a][k])
        /\ \A i \in DOMAIN comments \cap DOMAIN comments' :
              CounterMovesWithMembership(comments[i], comments'[i]) ]_vars

\* C11: a CreateComment answered 200 on an article_id that had no Article
\* document has created one whose counter matching the new comment is 1
\* (comments_count for a comment without parent, replies_count for one with
\* a parent) and whose other counters and likes are zero and empty; on an
\* article_id that had a document it has raised that document's
\* comments_count by 1 for a comment without parent and its replies_count
\* by 1 otherwise.
C11_CreateSeedsMatchingCounter ==
    \A p \in Procs :
        (Answered(p, "create") /\ procs[p].status = 200) =>
            LET r == procs[p]
                a == r.article_id
                root == r.parent = NoParent
            IN IF ~HasArticle(r.pre.articles, a)
               THEN articles[a] =
                       <<NewArticle(<<>>, 0, IF root THEN 1 ELSE 0, IF root THEN 0 ELSE 1)>>
               ELSE LET old == FindOne(r.pre.articles, a) IN
                    FindOne(articles, a) =
                       [old EXCEPT
                          !.comments_count = IF root THEN @ + 1 ELSE @,
                          !.replies_count = IF root THEN @ ELSE @ + 1]

\* C12: whenever no request is in flight, the parent of every stored comment
\* that has one is a stored comment of the same article_id.
C12_ParentsAreStored ==
    Quiescent =>
        \A i \in DOMAIN comments :
            comments[i].parent # NoParent =>
                /\ Stored(comments, comments[i].parent)
                /\ comments[comments[i].parent].article_id = comments[i].article_id

\* C13: a LikeArticle of an article_id that had no Article document is
\* answered 200; the article_id then has exactly one document, with likes =
\* [user_id], likes_count 1, comments_count 0 and replies_count 0, which is
\* the body of the response; nothing else in the store has changed.
C13_LikeCreatesArticle ==
    \A p \in Procs :
        LET r == procs[p] IN
        (Answered(p, "likeArticle") /\ ~HasArticle(r.pre.articles, r.article_id)) =>
            /\ r.status = 200
            /\ articles[r.article_id] = <<NewArticle(<<r.user_id>>, 1, 0, 0)>>
            /\ r.sent = articles[r.article_id]
            /\ \A a \in ArticleIds \ {r.article_id} : articles[a] = r.pre.articles[a]
            /\ comments = r.pre.comments

\* Article "a2", which had no document, has been liked by "u2".
C13_LikedUnknownArticle ==
    \E p \in Procs :
        /\ Answered(p, "likeArticle") /\ procs[p].status = 200
        /\ procs[p].article_id = "a2" /\ procs[p].user_id = "u2"
        /\ ~HasArticle(procs[p].pre.articles, "a2")
        /\ Len(articles["a2"]) = 1

\* C14: an UpdateCommentBody that has been answered has changed nothing but
\* the body of the comment it names, which is the body it sent, and is
\* answered 200; when its comment_id names no stored comment it is answered
\* 404 and the store is as it was.
C14_PatchReplacesBodyOnly ==
    \A p \in Procs :
        Answered(p, "patch") =>
            LET r == procs[p] IN
            /\ articles = r.pre.articles
            /\ IF Stored(r.pre.comments, r.comment_id)
               THEN /\ r.status = 200
                    /\ comments = [r.pre.comments EXCEPT ![r.comment_id].body = r.update]
               ELSE /\ r.status = 404
                    /\ comments = r.pre.comments

\* A raw page or limit read as the whole number it writes (0: it writes none
\* that is 1 or more).
Whole(raw, default) ==
    CASE raw = Absent -> default
      [] raw = "1" -> 1
      [] raw = "2" -> 2
      [] raw = "3" -> 3
      [] raw = "5" -> 5
      [] OTHER -> 0

\* Comment j is ranked before comment i by the sort of request r.
RankedBefore(r, j, i) ==
    CASE r.sort_by = "popular" ->
            \/ comments[j].likes_count > comments[i].likes_count
            \/ comments[j].likes_count = comments[i].likes_count /\ j > i
      [] r.sort_by = "newest" -> j > i
      [] r.sort_by = "oldest" -> j < i
      [] OTHER -> j < i

\* C15: a ListComments whose page and limit are whole numbers of 1 or more
\* is answered 200 with, of the comments that have its article_id and its
\* parent ranked by its sort, those ranked (page-1)*limit+1 to page*limit,
\* in that order, as many of them as there are and never more than limit.
C15_ListReturnsThePage ==
    \A p \in Procs :
        LET r == procs[p]
            page == Whole(r.page, 1)
            limit == Whole(r.limit, 5)
            skip == (page - 1) * limit
            M == {i \in DOMAIN comments :
                     comments[i].article_id = r.article_id /\ comments[i].parent = r.parent}
            left == IF Cardinality(M) > skip THEN Cardinality(M) - skip ELSE 0
        IN (Answered(p, "list") /\ page >= 1 /\ limit >= 1) =>
              /\ r.status = 200
              /\ Len(r.sent) <= limit
              /\ Len(r.sent) = IF left < limit THEN left ELSE limit
              /\ \A n \in 1..Len(r.sent) :
                    /\ r.sent[n] \in M
                    /\ Cardinality({j \in M : RankedBefore(r, j, r.sent[n])}) = skip + n - 1

\* The example of the specification: 12 comments match, sort newest, page 2,
\* limit 5; the answer is the comments ranked 6 to 10, newest first.
C15_PageTwoOfTwelve ==
    \E p \in Procs :
        /\ Answered(p, "list") /\ procs[p].status = 200
        /\ procs[p].sort_by = "newest" /\ procs[p].page = "2" /\ procs[p].limit = "5"
        /\ procs[p].article_id = "a1" /\ procs[p].parent = NoParent
        /\ Cardinality({i \in DOMAIN comments : comments[i].parent = NoParent}) = 12
        /\ procs[p].sent = <<7, 6, 5, 4, 3>>

\* C16: a ListComments whose page is 0, 1.5 or not a number, or whose limit
\* is not a number, is answered 500 without its query having been issued.
C16_InvalidPaginationRejected ==
    \A p \in Procs :
        LET r == procs[p] IN
        ( /\ Answered(p, "list")
          /\ r.page \in {"0", "1.5", "abc"} \/ r.limit = "abc" )
        => r.status = 500 /\ ~r.queried /\ r.sent = <<>>

\* A ListComments with page 1.5 and a limit that is a number was refused.
C16_FractionalPageRefused ==
    \E p \in Procs :
        /\ Answered(p, "list") /\ procs[p].status = 500
        /\ procs[p].page = "1.5" /\ procs[p].limit = "2"
        /\ comments # <<>>

\* C17: the step of a DeleteComment whose findByIdAndDelete finds its node
\* already gone ends the request with status 500 and writes nothing: the
\* comments it deleted before stay deleted, and neither the replies_count of
\* the target's parent nor the article's counters are decremented.
C17_AbortedDeleteStopsThere ==
    [][ \A p \in Procs :
          ( /\ procs[p].pc = "del_delete"
            /\ ~Stored(comments, procs[p].cur)
            /\ procs'[p] # procs[p] )
          => /\ procs'[p].pc = "done" /\ procs'[p].status = 500
             /\ comments' = comments
             /\ articles' = articles ]_vars

\* A DeleteComment of a reply was answered 500 after it had deleted its
\* target: the target is gone, its parent still counts it and so does the
\* article.
C17_AbortedAfterDeleting ==
    \E p \in Procs :
        LET r == procs[p] IN
        /\ Answered(p, "delete") /\ r.status = 500
        /\ r.repliesDeletedCount = 1 /\ r.firstLevelCommentsDeletedCount = 0
        /\ r.comment_id = 2 /\ ~Stored(comments, 2)
        /\ Stored(comments, 1) /\ comments[1].replies_count = 1
        /\ FindOne(articles, "a1").replies_count >= 1

\* The article counters agree with the stored comments.
ArticleCountsRight ==
    \A a \in ArticleIds : \A n \in 1..Len(articles[a]) :
        /\ articles[a][n].comments_count = Cardinality(Roots(comments, a))
        /\ articles[a][n].replies_count = Cardinality(Replies(comments, a))

\* A DeleteComment of client p was answered 500 after deleting some comment.
DeletionFailed(p) ==
    /\ Answered(p, "delete") /\ procs[p].status = 500
    /\ procs[p].repliesDeletedCount + procs[p].firstLevelCommentsDeletedCount >= 1

\* C18: interleaved DeleteComments of a comment and of its child can end
\* with a DeletionFailed or with article counters that disagree with the
\* stored comments (C18_OverlappingDeletesGoWrong is such an end); when two
\* requests have been issued and answered, the counters disagree only if one
\* of the two ended in DeletionFailed after it had deleted a comment.
C18_WrongCountsOnlyWithFailure ==
    (Quiescent /\ quota = MaxRequests - 2 /\ ~ArticleCountsRight) =>
        \E p \in Procs : DeletionFailed(p)

\* DeleteComment(1) and DeleteComment(2), 2 a child of 1, have both been
\* answered: the first with a DeletionFailed, and the article still counts
\* a root comment although none is stored.
C18_OverlappingDeletesGoWrong ==
    \E p, q \in Procs :
        /\ Answered(p, "delete") /\ procs[p].comment_id = 1
        /\ Answered(q, "delete") /\ procs[q].comment_id = 2
        /\ procs[q].pre.comments[2].parent = 1
        /\ DeletionFailed(p) /\ procs[q].status = 200
        /\ comments = <<>>
        /\ FindOne(articles, "a1").comments_count = 1

\* C19: two Likes by the same user of the same existing entity, which that
\* user had not liked, can both pass the already-liked check and both be
\* applied (C19_LikedTwiceAtOnce is such an end); when the only two requests
\* issued are such Likes by two clients and both were answered 200, the
\* user is in likes twice and likes_count is 2 higher than before.
C19_BothLikesApplied ==
    \A p, q \in Procs :
        LET r == procs[p] IN
        ( /\ p # q /\ quota = MaxRequests - 2
          /\ r.op \in {"likeArticle", "likeComment"}
          /\ Answered(p, r.op) /\ Answered(q, r.op)
          /\ r.status = 200 /\ procs[q].status = 200
          /\ r.user_id = procs[q].user_id
          /\ r.article_id = procs[q].article_id /\ r.comment_id = procs[q].comment_id
          /\ IF r.op = "likeArticle" THEN r.article_id = "a1" ELSE r.comment_id = 1 )
        => LET d == IF r.op = "likeArticle" THEN FindOne(articles, "a1") ELSE comments[1]
           IN /\ d.likes = <<r.user_id, r.user_id>>
              /\ d.likes_count = 2

\* Two clients' Likes of article "a1" by user "u1" were both answered 200.
C19_LikedTwiceAtOnce ==
    \E p, q \in Procs :
        /\ p # q /\ quota = MaxRequests - 2
        /\ Answered(p, "likeArticle") /\ Answered(q, "likeArticle")
        /\ procs[p].status = 200 /\ procs[q].status = 200
        /\ procs[p].article_id = "a1" /\ procs[q].article_id = "a1"
        /\ procs[p].user_id = "u1" /\ procs[q].user_id = "u1"
        /\ ~Includes(FindOne(procs[p].pre.articles, "a1").likes, "u1")
        /\ ~Includes(FindOne(procs[q].pre.articles, "a1").likes, "u1")
        /\ FindOne(articles, "a1").likes_count = 2

\* C20: after a DeleteComment answered 200, the replies_count of the
\* target's parent, if the target had one and it is stored, is 1 less than
\* before, and the replies_count of every other stored comment, the
\* parent's own ancestors included, is what it was.
C20_OnlyParentLosesAReply ==
    \A p \in Procs :
        (Answered(p, "delete") /\ procs[p].status = 200) =>
            LET r == procs[p]
                parent == r.pre.comments[r.comment_id].parent
            IN \A i \in DOMAIN comments :
                  /\ Stored(r.pre.comments, i)
                  /\ comments[i].replies_count =
                        IF i = parent
                        THEN r.pre.comments[i].replies_count - 1
                        ELSE r.pre.comments[i].replies_count

\* A reply to a reply has been deleted: its parent has one reply less and
\* its parent's parent still has its one reply.
C20_GrandchildDeleted ==
    \E p \in Procs :
        /\ Answered(p, "delete") /\ procs[p].status = 200
        /\ LET r == procs[p]
               parent == r.pre.comments[r.comment_id].parent
           IN /\ Stored(comments, parent)
              /\ Stored(comments, comments[parent].parent)
              /\ comments[parent].replies_count = r.pre.comments[parent].replies_count - 1
              /\ comments[comments[parent].parent].replies_count = 1

\* C21: a CreateComment whose parent id names no stored comment is answered
\* 200 with the new comment, which is stored with that parent id, and every
\* comment stored before is exactly as it was, replies_count included.
C21_UnknownParentStillCreates ==
    \A p \in Procs :
        LET r == procs[p] IN
        ( /\ Answered(p, "create")
          /\ r.parent # NoParent /\ ~Stored(r.pre.comments, r.parent) )
        => /\ r.status = 200
           /\ DOMAIN comments = DOMAIN r.pre.comments \cup {r.comment_id}
           /\ r.comment_id \notin DOMAIN r.pre.comments
           /\ comments[r.comment_id].parent = r.parent
           /\ r.sent = <<comments[r.comment_id]>>
           /\ \A i \in DOMAIN r.pre.comments : comments[i] = r.pre.comments[i]

\* A comment whose parent names nothing was created in a store that holds
\* a comment with a reply.
C21_OrphanCreated ==
    \E p \in Procs :
        /\ Answered(p, "create") /\ procs[p].status = 200
        /\ procs[p].parent = GhostId
        /\ Stored(comments, procs[p].comment_id)
        /\ \E i \in DOMAIN procs[p].pre.comments : comments[i].replies_count = 1

\* C22: a DeleteComment never counts more than one first-level comment;
\* once answered 200 it has counted 1 if its target had no parent and 0 if
\* it had one, and then the article's comments_count is what it was.
C22_AtMostOneFirstLevel ==
    \A p \in Procs :
        LET r == procs[p] IN
        r.op = "delete" =>
            /\ r.firstLevelCommentsDeletedCount <= 1
            /\ (Answered(p, "delete") /\ r.status = 200) =>
                  LET root == r.pre.comments[r.comment_id].parent = NoParent IN
                  /\ r.firstLevelCommentsDeletedCount = IF root THEN 1 ELSE 0
                  /\ ~root => FindOne(articles, r.article_id).comments_count =
                                 FindOne(r.pre.articles, r.article_id).comments_count

\* A reply that had a reply of its own was deleted.
C22_ReplyWithReplyDeleted ==
    \E p \in Procs :
        /\ Answered(p, "delete") /\ procs[p].status = 200
        /\ procs[p].repliesDeletedCount = 2
        /\ procs[p].firstLevelCommentsDeletedCount = 0
        /\ FindOne(articles, procs[p].article_id).comments_count = 1

\* C23: no counter of an article or of a comment is ever below 0.
C23_CountersNotNegative ==
    /\ \A a \in ArticleIds : \A n \in 1..Len(articles[a]) :
          /\ articles[a][n].likes_count >= 0
          /\ articles[a][n].comments_count >= 0
          /\ articles[a][n].replies_count >= 0
    /\ \A i \in DOMAIN comments :
          comments[i].likes_count >= 0 /\ comments[i].replies_count >= 0

\* C24: with creates of several clients interleaved on article "a1", whose
\* document exists from the start (one root comment, comments_count 1),
\* whenever no request is in flight the document is still the only one and
\* its comments_count and replies_count are the numbers of stored root
\* comments and replies of "a1": every create was counted once.
C24_NoCreateIsLost ==
    Quiescent =>
        /\ Len(articles["a1"]) = 1
        /\ FindOne(articles, "a1").comments_count = Cardinality(Roots(comments, "a1"))
        /\ FindOne(articles, "a1").replies_count = Cardinality(Replies(comments, "a1"))

\* Two clients' creates on "a1", a root comment and a reply, each started
\* before the other had saved its comment, were both answered 200.
C24_OverlappingCreatesDone ==
    \E p, q \in Procs :
        /\ p # q /\ Quiescent
        /\ Answered(p, "create") /\ Answered(q, "create")
        /\ procs[p].status = 200 /\ procs[q].status = 200
        /\ procs[p].article_id = "a1" /\ procs[q].article_id = "a1"
        /\ procs[p].parent = NoParent /\ procs[q].parent = 1
        /\ ~Stored(procs[p].pre.comments, procs[q].comment_id)
        /\ ~Stored(procs[q].pre.comments, procs[p].comment_id)

\* C25: when the only two requests issued are root creates or article likes
\* (by different users) of two clients on article "a2", which had no
\* document, and both were answered 200, "a2" has exactly one document
\* whose comments_count is the number of those creates and whose
\* likes_count is the number of those likes.
C25_OneArticleCountsBoth ==
    \A p, q \in Procs :
        LET r == procs[p]
            t == procs[q]
            FirstUse(x) == /\ x.pc = "done" /\ x.status = 200 /\ x.article_id = "a2"
                           /\ \/ x.op = "create" /\ x.parent = NoParent
                              \/ x.op = "likeArticle"
            N(op) == (IF r.op = op THEN 1 ELSE 0) + (IF t.op = op THEN 1 ELSE 0)
        IN
        ( /\ p # q /\ quota = MaxRequests - 2
          /\ FirstUse(r) /\ FirstUse(t)
          /\ (r.op = "likeArticle" /\ t.op = "likeArticle") => r.user_id # t.user_id )
        => /\ Len(articles["a2"]) = 1
           /\ FindOne(articles, "a2").comments_count = N("create")
           /\ FindOne(articles, "a2").likes_count = N("likeArticle")

\* C26: when the only two requests issued are a delete and a create whose
\* parent was in the deleted comment's subtree, and both were answered 200,
\* no stored comment has a parent in that subtree.
C26_NoReplyToDeleted ==
    \A p, q \in Procs :
        LET r == procs[p]
            t == procs[q]
        IN
        ( /\ p # q /\ quota = MaxRequests - 2
          /\ Answered(p, "delete") /\ r.status = 200
          /\ Answered(q, "create") /\ t.status = 200
          /\ t.parent \in Subtree(r.pre.comments, r.comment_id) )
        => \A i \in DOMAIN comments :
              comments[i].parent \notin Subtree(r.pre.comments, r.comment_id)

\* What a DeleteComment has deleted so far, against the subtree of its
\* target in the store it started from. findByIdAndDelete either removes
\* the comment, which is then counted, or finds nothing, which ends the
\* request with 500: the comments gone are the deletes attempted.
DeletedWithinSubtree(p) ==
    LET r == procs[p]
        sub == Subtree(r.pre.comments, r.comment_id)
        gone == DOMAIN r.pre.comments \ DOMAIN comments
    IN r.op = "delete" =>
        /\ gone \subseteq sub
        /\ r.firstLevelCommentsDeletedCount + r.repliesDeletedCount = Cardinality(gone)
        /\ Answered(p, "delete") =>
              IF Stored(r.pre.comments, r.comment_id)
              THEN r.status = 200 /\ gone = sub
              ELSE r.status \in {404, 500} /\ gone = {}

\* C27: a DeleteComment run alone is eventually answered; at every step
\* the comments it has deleted are comments of its target's subtree, each
\* counted once, and when it is answered 200 they are the whole subtree,
\* so no descendant of the target is still stored.
C27_DeleteCompletes ==
    /\ [](\A p \in Procs : DeletedWithinSubtree(p))
    /\ \A p \in Procs :
          (procs[p].op = "delete" /\ ~Free(p)) ~> Answered(p, "delete")

\* A delete of a comment with a reply and a reply to that reply was
\* answered 200 while a comment outside the subtree is stored.
C27_SubtreeDeletedRestKept ==
    \E p \in Procs :
        /\ Answered(p, "delete") /\ procs[p].status = 200
        /\ Cardinality(Subtree(procs[p].pre.comments, procs[p].comment_id)) = 3
        /\ Subtree(procs[p].pre.comments, procs[p].comment_id) \cap DOMAIN comments = {}
        /\ DOMAIN comments # {}

====
